---- MODULE Spec2Model ----
(***************************************************************************)
(* A model of package jsonrq (jsonrq.go): the BasicRequest error latch,    *)
(* the Worker loop, the Pool (unbuffered channel `in` plus WaitGroup `wg`) *)
(* and the two entry points Do and DoN.                                    *)
(*                                                                         *)
(* Errors are modelled by their kind.  Nil is the nil error; the other     *)
(* kinds are the wrapped errors the package produces:                      *)
(*   "descriptor"  errors.Wrap(err, "Error creating BasicRequest")         *)
(*   "transport"   errors.Wrap(err, "HTTP: Error performing request")      *)
(*   "decode"      errors.Wrap(err, "JSON: Error decoding response")       *)
(*   "release"     the error of resp.Body.Close()                          *)
(***************************************************************************)
EXTENDS Integers, Sequences, FiniteSets

\* Largest batch handed to Do / DoN.
MaxTasks == 2
\* Largest parallelism argument n handed to DoN.
MaxN == 2
\* Longest sequence of SetErr calls explored on one BasicRequest.
MaxCalls == 3

Nil == "nil"
ErrKinds == {"descriptor", "transport", "decode", "release"}
Errors == {Nil} \cup ErrKinds

Tasks == 1..MaxTasks
\* A pool of Do has len(rqs) workers, a pool of DoN has max(n, 1).
Workers == 1..(IF MaxTasks > MaxN THEN MaxTasks ELSE MaxN)

VARIABLES
    entry,      \* what the caller runs: "Do", "DoN", or "NewPool" (the Pool API itself)
    nArg,       \* the argument n of DoN or NewPool (0 for Do)
    rqs,        \* the batch: a sequence of pairwise distinct tasks
    url,        \* url[t]: "ok" or "malformed" (http.NewRequest fails on it)
    callerPc,   \* "start", "send" (inside Pool.Do), "wait" (inside Pool.Stop), "returned"
    sendIdx,    \* index in rqs of the next task Pool.Do sends
    poolN,      \* number of workers NewPool started
    closed,     \* the channel p.in has been closed
    wg,         \* the WaitGroup counter
    wpc,        \* wpc[w]: position of worker w
    cur,        \* cur[w]: the task worker w holds (0: none)
    req,        \* req[w]: the *http.Request worker w obtained: "none", "valid", "nil"
    err,        \* err[t]: the field BasicRequest.err of task t
    data,       \* data[t]: the decode target of t: "zero", "decoded", "partial"
    doneCount,  \* doneCount[t]: number of calls of t.Done()
    outcome,    \* outcome[t]: what each step of t's cycle returned
    crashed,    \* an unrecovered panic ended the process
    latch,      \* a BasicRequest.err on which SetErr calls are explored
    calls,      \* the arguments of the SetErr calls made on latch, in order
    fatal,      \* the panic that ended the process ("none": no panic)
    stopPc,     \* a second goroutine calling p.Stop(): "none", "ready", "wait", "returned"
    recvCount   \* recvCount[t]: number of times a worker received t from p.in

vars == <<entry, nArg, rqs, url, callerPc, sendIdx, poolN, closed, wg, wpc, cur,
          req, err, data, doneCount, outcome, crashed, latch, calls, fatal, stopPc, recvCount>>

poolVars == <<entry, nArg, rqs, url, callerPc, sendIdx, poolN, closed, wg, wpc,
              cur, req, err, data, doneCount, outcome, crashed, fatal, stopPc,
              recvCount>>

----------------------------------------------------------------------------
(* BasicRequest *)

\* errors.Wrap(err, msg): nil for a nil err, the wrapped error otherwise.
Wrap(e, kind) == IF e = Nil THEN Nil ELSE kind

\* SetErr as a plain assignment, r.err = err: a nil argument clears the latch.
SetErrAssign(old, e) == e

\* SetErr keeping the first error: a later non-nil error is dropped.
SetErrFirstWins(old, e) == IF old = Nil THEN e ELSE old

\* func (r *BasicRequest) SetErr(err error): the new value of r.err.
SetErr(old, e) == IF old = Nil \/ e # Nil THEN e ELSE old

\* http.NewRequest("GET", r.url, nil): <<request, err>>. A URL that does not
\* parse gives a nil request and an error.
NewRequest(u) == IF u = "malformed" THEN <<"nil", "descriptor">> ELSE <<"valid", Nil>>

\* The last non-nil element of a sequence of errors, Nil if there is none.
RECURSIVE LastNonNil(_)
LastNonNil(s) ==
    IF s = <<>> THEN Nil
    ELSE IF s[Len(s)] # Nil THEN s[Len(s)]
    ELSE LastNonNil(SubSeq(s, 1, Len(s) - 1))

----------------------------------------------------------------------------
(* Initial states *)

NoOutcome == [fetch |-> "none", decode |-> "none", release |-> "none"]

PoolIdle ==
    /\ callerPc = "start"
    /\ sendIdx = 1
    /\ poolN = 0
    /\ closed = FALSE
    /\ wg = 0
    /\ wpc = [w \in Workers |-> "none"]
    /\ cur = [w \in Workers |-> 0]
    /\ req = [w \in Workers |-> "none"]
    /\ err = [t \in Tasks |-> Nil]
    /\ data = [t \in Tasks |-> "zero"]
    /\ doneCount = [t \in Tasks |-> 0]
    /\ outcome = [t \in Tasks |-> NoOutcome]
    /\ crashed = FALSE
    /\ fatal = "none"
    /\ recvCount = [t \in Tasks |-> 0]

\* The caller holds a batch of k fresh BasicRequests and calls Do or DoN.
Init ==
    /\ entry \in {"Do", "DoN"}
    /\ nArg \in (IF entry = "Do" THEN {0} ELSE 0..MaxN)
    /\ \E k \in 0..MaxTasks : rqs = [i \in 1..k |-> i]
    /\ url \in [Tasks -> {"ok", "malformed"}]
    /\ \A t \in Tasks : t > Len(rqs) => url[t] = "ok"
    /\ PoolIdle
    /\ stopPc = "none"
    /\ latch = Nil
    /\ calls = <<>>

----------------------------------------------------------------------------
(* Pool, Do, DoN *)

\* The loop of NewPool running one goroutine too many: i <= n.
SpawnedOffByOne(n) == {w \in Workers : w <= n + 1}

\* The goroutines NewPool(n) starts: for i := uint(0); i < n; i++.
Spawned(n) == {w \in Workers : w <= n}

\* NewPool raising a count below 1 to 1, as DoN does.
WorkerCountClamped(n) == IF n < 1 THEN 1 ELSE n

\* The count NewPool(n) hands to wg.Add and to its loop: n as given.
WorkerCount(n) == n

\* NewPool(n): an unbuffered channel, wg.Add(n), n goroutines running Worker,
\* each of which starts at `for r := range in`.
NewPool(n) ==
    /\ poolN' = Cardinality(Spawned(WorkerCount(n)))
    /\ wg' = WorkerCount(n)
    /\ wpc' = [w \in Workers |-> IF w \in Spawned(WorkerCount(n)) THEN "recv" ELSE "none"]
    /\ closed' = FALSE

\* Do sizing its pool to a single worker whatever the batch.
DoPoolSizeOne(k) == 1

\* The n Do hands to NewPool for a batch of k tasks: uint(len(rqs)).
DoPoolSize(k) == k

\* Do(rqs...): p := NewPool(uint(len(rqs))), then p.Do(rqs...).
CallDo ==
    /\ ~crashed
    /\ callerPc = "start"
    /\ entry = "Do"
    /\ NewPool(DoPoolSize(Len(rqs)))
    /\ callerPc' = "send"
    /\ UNCHANGED <<entry, nArg, rqs, url, sendIdx, cur, req, err, data,
                   doneCount, outcome, crashed, latch, calls, fatal, stopPc, recvCount>>

\* DoN without its guard `if n < 1`.
ClampNMissing(n) == n

\* The n DoN hands to NewPool.
ClampN(n) == IF n < 1 THEN 1 ELSE n

\* DoN(n, rqs...): if n < 1 { n = 1 }; p := NewPool(n), then p.Do(rqs...).
CallDoN ==
    /\ ~crashed
    /\ callerPc = "start"
    /\ entry = "DoN"
    /\ NewPool(ClampN(nArg))
    /\ callerPc' = "send"
    /\ UNCHANGED <<entry, nArg, rqs, url, sendIdx, cur, req, err, data,
                   doneCount, outcome, crashed, latch, calls, fatal, stopPc, recvCount>>

\* The workers that can take the value of a send on p.in: those blocked in
\* `for r := range in`.
Receivers == {w \in Workers : wpc[w] = "recv"}

\* Pool.Do sending its first argument at every iteration.
SendItemFirst(i) == rqs[1]

\* Pool.Do walking its arguments from the last to the first.
SendItemReversed(i) == rqs[Len(rqs) + 1 - i]

\* The task of the i-th iteration of `for _, rq := range rqs`.
SendItem(i) == rqs[i]

\* p.in <- rq in Pool.Do, met by worker w's receive in `for r := range in`:
\* the channel is unbuffered, so the send completes only together with a
\* receive.
Handoff(w) ==
    /\ ~crashed
    /\ callerPc = "send"
    /\ sendIdx <= Len(rqs)
    /\ ~closed
    /\ w \in Receivers
    /\ cur' = [cur EXCEPT ![w] = SendItem(sendIdx)]
    /\ recvCount' = [recvCount EXCEPT ![SendItem(sendIdx)] = @ + 1]
    /\ wpc' = [wpc EXCEPT ![w] = "request"]
    /\ sendIdx' = sendIdx + 1
    /\ UNCHANGED <<entry, nArg, rqs, url, callerPc, poolN, closed, wg, req, err,
                   data, doneCount, outcome, crashed, latch, calls, fatal, stopPc>>

\* close(p.in) succeeding on a channel that is already closed.
CanCloseAlways == TRUE

\* close(p.in) succeeds on an open channel only.
CanClose == ~closed

\* Pool.Do's loop is over; Pool.Stop: close(p.in).
StopClose ==
    /\ ~crashed
    /\ callerPc = "send"
    /\ sendIdx > Len(rqs)
    /\ CanClose
    /\ closed' = TRUE
    /\ callerPc' = "wait"
    /\ UNCHANGED <<entry, nArg, rqs, url, sendIdx, poolN, wg, wpc, cur, req, err,
                   data, doneCount, outcome, crashed, latch, calls, fatal, stopPc, recvCount>>

\* Pool.Stop returning right after close(p.in), without the barrier.
WaitReturnsAtOnce == TRUE

\* p.wg.Wait() returns when the counter is zero.
WaitReturns == wg = 0

\* Pool.Stop: p.wg.Wait() returns; Do / DoN return.
StopWait ==
    /\ ~crashed
    /\ callerPc = "wait"
    /\ WaitReturns
    /\ callerPc' = "returned"
    /\ UNCHANGED <<entry, nArg, rqs, url, sendIdx, poolN, closed, wg, wpc, cur,
                   req, err, data, doneCount, outcome, crashed, latch, calls, fatal, stopPc, recvCount>>

----------------------------------------------------------------------------
(* The Pool API used directly: p := NewPool(n); p.Do(rqs...); p.Stop(), and *)
(* possibly a second goroutine that calls p.Stop() at any time.             *)

\* p := NewPool(n), then p.Do(rqs...).
CallNewPool ==
    /\ ~crashed
    /\ callerPc = "start"
    /\ entry = "NewPool"
    /\ NewPool(nArg)
    /\ callerPc' = "send"
    /\ UNCHANGED <<entry, nArg, rqs, url, sendIdx, cur, req, err, data,
                   doneCount, outcome, crashed, latch, calls, fatal, stopPc, recvCount>>

\* The second goroutine's Pool.Stop: close(p.in).
OtherStopClose ==
    /\ ~crashed
    /\ callerPc # "start"
    /\ stopPc = "ready"
    /\ CanClose
    /\ closed' = TRUE
    /\ stopPc' = "wait"
    /\ UNCHANGED <<entry, nArg, rqs, url, callerPc, sendIdx, poolN, wg, wpc, cur,
                   req, err, data, doneCount, outcome, crashed, latch, calls, fatal,
                   recvCount>>

\* The second goroutine's Pool.Stop: p.wg.Wait() returns, and Stop with it.
OtherStopWait ==
    /\ ~crashed
    /\ stopPc = "wait"
    /\ WaitReturns
    /\ stopPc' = "returned"
    /\ UNCHANGED <<entry, nArg, rqs, url, callerPc, sendIdx, poolN, closed, wg, wpc,
                   cur, req, err, data, doneCount, outcome, crashed, latch, calls,
                   fatal, recvCount>>

\* close(p.in) in Pool.Stop on a channel that is already closed: a panic
\* ("close of closed channel"), in the caller's Stop or in the second
\* goroutine's.
CloseOfClosed ==
    /\ ~crashed
    /\ ~CanClose
    /\ \/ callerPc = "send" /\ sendIdx > Len(rqs)
       \/ callerPc # "start" /\ stopPc = "ready"
    /\ crashed' = TRUE
    /\ fatal' = "close of closed channel"
    /\ UNCHANGED <<entry, nArg, rqs, url, callerPc, sendIdx, poolN, closed, wg, wpc,
                   cur, req, err, data, doneCount, outcome, latch, calls, stopPc,
                   recvCount>>

\* A send on the closed channel that drops the task and goes on.
SendOnClosedDrops ==
    /\ ~crashed
    /\ callerPc = "send"
    /\ sendIdx <= Len(rqs)
    /\ closed
    /\ sendIdx' = sendIdx + 1
    /\ UNCHANGED <<entry, nArg, rqs, url, callerPc, poolN, closed, wg, wpc, cur,
                   req, err, data, doneCount, outcome, crashed, latch, calls, fatal,
                   stopPc, recvCount>>

\* p.in <- rq in Pool.Do on a closed channel, whether the send begins after
\* the close or was blocked when the channel was closed: a panic ("send on
\* closed channel").
SendOnClosed ==
    /\ ~crashed
    /\ callerPc = "send"
    /\ sendIdx <= Len(rqs)
    /\ closed
    /\ crashed' = TRUE
    /\ fatal' = "send on closed channel"
    /\ UNCHANGED <<entry, nArg, rqs, url, callerPc, sendIdx, poolN, closed, wg, wpc,
                   cur, req, err, data, doneCount, outcome, latch, calls, stopPc,
                   recvCount>>

----------------------------------------------------------------------------
(* Worker *)

\* r.Request(): http.NewRequest, r.SetErr(errors.Wrap(err, ...)), return request.
WorkerRequest(w) ==
    /\ ~crashed
    /\ wpc[w] = "request"
    /\ LET t == cur[w]
           r == NewRequest(url[t])
       IN /\ err' = [err EXCEPT ![t] = SetErr(err[t], Wrap(r[2], "descriptor"))]
          /\ req' = [req EXCEPT ![w] = r[1]]
    /\ wpc' = [wpc EXCEPT ![w] = "fetch"]
    /\ UNCHANGED <<entry, nArg, rqs, url, callerPc, sendIdx, poolN, closed, wg,
                   cur, data, doneCount, outcome, crashed, latch, calls, fatal, stopPc, recvCount>>

\* A failed fetch falling through to the decode.
AfterFetchErrorDecodes == "decode"

\* A failed fetch going straight to the next iteration, past r.Done().
AfterFetchErrorSkipsDone == "recv"

\* The position of a worker after a failed fetch: return from the closure,
\* then r.Done().
AfterFetchError == "done"

\* resp, err := http.DefaultClient.Do(request).
\*   - request is nil: Client.Do dereferences it, the goroutine panics, and an
\*     unrecovered panic ends the process;
\*   - err != nil: r.SetErr(errors.Wrap(err, "HTTP: ...")), return;
\*   - otherwise the deferred release is registered and decoding follows.
WorkerFetch(w) ==
    /\ ~crashed
    /\ wpc[w] = "fetch"
    /\ LET t == cur[w] IN
       \/ /\ req[w] = "nil"
          /\ crashed' = TRUE
          /\ fatal' = "nil request"
          /\ outcome' = [outcome EXCEPT ![t].fetch = "panic"]
          /\ UNCHANGED <<wpc, err>>
       \/ /\ req[w] = "valid"
          /\ err' = [err EXCEPT ![t] = SetErr(err[t], Wrap("failed", "transport"))]
          /\ outcome' = [outcome EXCEPT ![t].fetch = "err"]
          /\ wpc' = [wpc EXCEPT ![w] = AfterFetchError]
          /\ UNCHANGED <<crashed, fatal>>
       \/ /\ req[w] = "valid"
          /\ outcome' = [outcome EXCEPT ![t].fetch = "ok"]
          /\ wpc' = [wpc EXCEPT ![w] = "decode"]
          /\ UNCHANGED <<crashed, fatal, err>>
    /\ UNCHANGED <<entry, nArg, rqs, url, callerPc, sendIdx, poolN, closed, wg,
                   cur, req, data, doneCount, latch, calls, stopPc, recvCount>>

\* A cycle whose release is never run: r.Done() right after the decode.
AfterDecodeSkipsRelease == "done"

\* The position of a worker after the decode, failed or not: the deferred
\* release.
AfterDecode == "release"

\* err = json.NewDecoder(resp.Body).Decode(r.Data()); on an error
\* r.SetErr(errors.Wrap(err, "JSON: ...")). A failed Decode may have written
\* part of the target. Either way the deferred release runs next.
WorkerDecode(w) ==
    /\ ~crashed
    /\ wpc[w] = "decode"
    /\ LET t == cur[w] IN
       \/ /\ data' = [data EXCEPT ![t] = "decoded"]
          /\ outcome' = [outcome EXCEPT ![t].decode = "ok"]
          /\ UNCHANGED err
       \/ /\ \E d \in {data[t], "partial"} : data' = [data EXCEPT ![t] = d]
          /\ err' = [err EXCEPT ![t] = SetErr(err[t], Wrap("failed", "decode"))]
          /\ outcome' = [outcome EXCEPT ![t].decode = "err"]
    /\ wpc' = [wpc EXCEPT ![w] = AfterDecode]
    /\ UNCHANGED <<entry, nArg, rqs, url, callerPc, sendIdx, poolN, closed, wg,
                   cur, req, doneCount, crashed, latch, calls, fatal, stopPc, recvCount>>

\* What the deferred function hands to SetErr: the result e of
\* resp.Body.Close(), unwrapped.
ReleaseArg(e) == e

\* defer func() { r.SetErr(resp.Body.Close()) }()
WorkerRelease(w) ==
    /\ ~crashed
    /\ wpc[w] = "release"
    /\ LET t == cur[w] IN
       \E e \in {Nil, "release"} :
          /\ err' = [err EXCEPT ![t] = SetErr(err[t], ReleaseArg(e))]
          /\ outcome' = [outcome EXCEPT ![t].release = IF e = Nil THEN "ok" ELSE "err"]
    /\ wpc' = [wpc EXCEPT ![w] = "done"]
    /\ UNCHANGED <<entry, nArg, rqs, url, callerPc, sendIdx, poolN, closed, wg,
                   cur, req, data, doneCount, crashed, latch, calls, fatal, stopPc, recvCount>>

\* wg.Done() inside the loop: the worker leaves after its first task.
AfterDoneLeaves == "wgdone"

\* The position of a worker after r.Done(): the next iteration of the loop.
AfterDone == "recv"

\* r.Done(), and back to `for r := range in`.
WorkerDone(w) ==
    /\ ~crashed
    /\ wpc[w] = "done"
    /\ doneCount' = [doneCount EXCEPT ![cur[w]] = @ + 1]
    /\ cur' = [cur EXCEPT ![w] = 0]
    /\ req' = [req EXCEPT ![w] = "none"]
    /\ wpc' = [wpc EXCEPT ![w] = AfterDone]
    /\ UNCHANGED <<entry, nArg, rqs, url, callerPc, sendIdx, poolN, closed, wg,
                   err, data, outcome, crashed, latch, calls, fatal, stopPc, recvCount>>

\* `for r := range in` ends: the channel is closed (and, unbuffered, empty).
WorkerClosed(w) ==
    /\ ~crashed
    /\ wpc[w] = "recv"
    /\ closed
    /\ wpc' = [wpc EXCEPT ![w] = "wgdone"]
    /\ UNCHANGED <<entry, nArg, rqs, url, callerPc, sendIdx, poolN, closed, wg,
                   cur, req, err, data, doneCount, outcome, crashed, latch, calls, fatal, stopPc, recvCount>>

\* wg.Done(), and the goroutine ends.
WorkerWgDone(w) ==
    /\ ~crashed
    /\ wpc[w] = "wgdone"
    /\ wg' = wg - 1
    /\ wpc' = [wpc EXCEPT ![w] = "exited"]
    /\ UNCHANGED <<entry, nArg, rqs, url, callerPc, sendIdx, poolN, closed,
                   cur, req, err, data, doneCount, outcome, crashed, latch, calls, fatal, stopPc, recvCount>>

----------------------------------------------------------------------------
(* Specifications *)

Next ==
    \/ CallDo
    \/ CallDoN
    \/ StopClose
    \/ StopWait
    \/ \E w \in Workers : Handoff(w)
    \/ \E w \in Workers : WorkerRequest(w)
    \/ \E w \in Workers : WorkerFetch(w)
    \/ \E w \in Workers : WorkerDecode(w)
    \/ \E w \in Workers : WorkerRelease(w)
    \/ \E w \in Workers : WorkerDone(w)
    \/ \E w \in Workers : WorkerClosed(w)
    \/ \E w \in Workers : WorkerWgDone(w)

Spec == Init /\ [][Next]_vars

\* The caller holds a batch of k fresh BasicRequests and calls Do, DoN, or
\* NewPool(n) followed by p.Do and p.Stop, with or without a second goroutine
\* that calls p.Stop().
PoolInit ==
    /\ entry \in {"Do", "DoN", "NewPool"}
    /\ nArg \in (IF entry = "Do" THEN {0} ELSE 0..MaxN)
    /\ \E k \in 0..MaxTasks : rqs = [i \in 1..k |-> i]
    /\ url \in [Tasks -> {"ok", "malformed"}]
    /\ \A t \in Tasks : t > Len(rqs) => url[t] = "ok"
    /\ PoolIdle
    /\ stopPc \in (IF entry = "NewPool" THEN {"none", "ready"} ELSE {"none"})
    /\ latch = Nil
    /\ calls = <<>>

PoolNext ==
    \/ Next
    \/ CallNewPool
    \/ OtherStopClose
    \/ OtherStopWait
    \/ CloseOfClosed
    \/ SendOnClosed

PoolSpec == PoolInit /\ [][PoolNext]_vars

\* A fresh BasicRequest on which a sequence of SetErr calls is made.
LatchInit ==
    /\ entry = "Do"
    /\ nArg = 0
    /\ rqs = <<>>
    /\ url = [t \in Tasks |-> "ok"]
    /\ PoolIdle
    /\ stopPc = "none"
    /\ latch = Nil
    /\ calls = <<>>

\* r.SetErr(e)
CallSetErr(e) ==
    /\ Len(calls) < MaxCalls
    /\ latch' = SetErr(latch, e)
    /\ calls' = Append(calls, e)
    /\ UNCHANGED poolVars

LatchNext == \E e \in Errors : CallSetErr(e)

LatchSpec == LatchInit /\ [][LatchNext]_vars

----------------------------------------------------------------------------
(* Properties *)

\* The tasks of the batch.
Batch == {rqs[i] : i \in 1..Len(rqs)}

\* The tasks Pool.Do has handed to a worker.
Sent == {rqs[i] : i \in 1..(sendIdx - 1)}

\* The workers that have received a task and not yet called its Done().
InFlight == {w \in Workers : cur[w] # 0}

\* The tasks held by a worker.
Held == {cur[w] : w \in InFlight}

\* C1 (exactly-once completion): Done() is never called twice on a task; a
\* task that was handed to a worker and is no longer held by it has had
\* Done() called exactly once, whatever its fetch, decode and release
\* returned; a task still held or not yet sent has had no Done(); and when
\* Stop has returned every task of the batch has had Done() exactly once.
C1_ExactlyOnce ==
    /\ \A t \in Tasks : doneCount[t] <= 1
    /\ \A t \in Sent : doneCount[t] = (IF t \in Held THEN 0 ELSE 1)
    /\ \A t \in Tasks \ Sent : doneCount[t] = 0
    /\ callerPc = "returned" => \A t \in Batch : doneCount[t] = 1

\* Stop has returned on a batch of two tasks, one whose fetch failed and one
\* whose release failed, each with exactly one Done().
C1_Witness ==
    /\ callerPc = "returned"
    /\ Len(rqs) = 2
    /\ outcome[1].fetch = "err"
    /\ outcome[2].release = "err"
    /\ doneCount[1] = 1 /\ doneCount[2] = 1

\* C2 (drain guarantee): when Stop has returned, every task of the batch was
\* sent and has had Done(), no worker holds a task, and every worker of the
\* pool has left its loop and ended, so that nothing writes a task's latch
\* or decode target afterwards.
C2_Drain ==
    callerPc = "returned" =>
        /\ Sent = Batch
        /\ \A t \in Batch : doneCount[t] >= 1
        /\ InFlight = {}
        /\ \A w \in Workers : wpc[w] \in {"none", "exited"}
        /\ ~ ENABLED (\E w \in Workers : WorkerRequest(w) \/ WorkerFetch(w)
                         \/ WorkerDecode(w) \/ WorkerRelease(w) \/ WorkerDone(w))

\* Stop has returned on a pool of two workers that decoded two tasks.
C2_Witness ==
    /\ callerPc = "returned"
    /\ poolN = 2
    /\ Len(rqs) = 2
    /\ data[1] = "decoded" /\ data[2] = "decoded"

\* C3 (bounded concurrency): under DoN(n, ...) with n >= 1 at most n tasks
\* are between their receipt by a worker and their Done(); and a send of
\* Pool.Do completes only by handing the task to a worker that was idle in
\* its receive.
C3_BoundedConcurrency ==
    /\ [](entry = "DoN" /\ nArg >= 1 => Cardinality(InFlight) <= nArg)
    /\ [][sendIdx' # sendIdx =>
            \E w \in Workers :
                /\ wpc[w] = "recv" /\ cur[w] = 0
                /\ cur'[w] = rqs[sendIdx]
                /\ sendIdx' = sendIdx + 1]_vars

\* DoN(1, t1, t2): the worker is busy with t1 while Pool.Do is blocked
\* sending t2.
C3_Witness ==
    /\ entry = "DoN" /\ nArg = 1
    /\ Len(rqs) = 2
    /\ callerPc = "send" /\ sendIdx = 2
    /\ Cardinality(InFlight) = 1
    /\ Receivers = {}

\* C4 (latch): after any sequence of SetErr calls on a fresh BasicRequest,
\* Err() is the argument of the last call with a non-nil argument, nil if
\* there was none.
C4_Latch == latch = LastNonNil(calls)

\* A recorded error survived a SetErr(nil), and had overwritten another.
C4_Witness ==
    /\ calls = <<"transport", "decode", Nil>>
    /\ latch = "decode"

\* C5 (termination): Do and DoN return: before the return some step is
\* always possible, whatever tasks fail.
C5_Terminates == callerPc = "returned" \/ ENABLED Next

\* C6 (failure isolation): a task whose cycle recorded an error leaves the
\* workers running, and a step of a worker on its task changes the latch,
\* the decode target and the completion count of no other task.
C6_FailureIsolation ==
    /\ []((\E t \in Tasks : err[t] # Nil) => ~crashed)
    /\ [][\A t \in Tasks :
            (err'[t] # err[t] \/ data'[t] # data[t] \/ doneCount'[t] # doneCount[t])
                => \E w \in Workers : cur[w] = t /\ wpc'[w] # wpc[w]]_vars

\* C7 (scenario A): Do on a batch of BasicRequests with malformed URLs
\* returns, and then every task reports the descriptor error.
C7_ScenarioA ==
    (entry = "Do" /\ Len(rqs) > 0 /\ \A t \in Batch : url[t] = "malformed") =>
        /\ callerPc = "returned" \/ ENABLED Next
        /\ callerPc = "returned" => \A t \in Batch : err[t] = "descriptor"

\* C8 (release error wins): once the release step of a task has run, a
\* failed release leaves the release error in the latch, after a successful
\* decode and after a failed one; a successful release keeps a decode error,
\* and leaves the latch nil after a successful decode.
C8_ReleaseErrorWins ==
    \A t \in Tasks :
        /\ outcome[t].release = "err" => err[t] = "release"
        /\ outcome[t].release = "ok" /\ outcome[t].decode = "err" => err[t] = "decode"
        /\ outcome[t].release = "ok" /\ outcome[t].decode = "ok" => err[t] = Nil

\* A task is done whose decode and release both failed, and a task whose
\* decode failed and whose release succeeded.
C8_Witness ==
    /\ doneCount[1] = 1 /\ doneCount[2] = 1
    /\ outcome[1].decode = "err" /\ outcome[1].release = "err" /\ err[1] = "release"
    /\ outcome[2].decode = "err" /\ outcome[2].release = "ok" /\ err[2] = "decode"

\* C9 (full parallelism): the pool of Do(tasks...) has len(tasks) workers,
\* and whenever Pool.Do is about to send a task some worker is idle in its
\* receive.
C9_FullParallelism ==
    entry = "Do" /\ callerPc # "start" =>
        /\ poolN = Len(rqs)
        /\ wg <= Len(rqs)
        /\ (callerPc = "send" /\ sendIdx <= Len(rqs)) => Receivers # {}

\* Every task of a largest batch is in flight at once.
C9_Witness ==
    /\ entry = "Do"
    /\ Len(rqs) = MaxTasks
    /\ Cardinality(InFlight) = MaxTasks
    /\ ~crashed

\* C10 (DoN clamps n): the pool of DoN(n, ...) has max(n, 1) workers; under
\* DoN(0, ...) at most one task is in flight, the run is never stuck short
\* of its return unless a worker panicked, and at the return every task has
\* had its Done().
C10_DoNClamps ==
    entry = "DoN" /\ callerPc # "start" =>
        /\ poolN = (IF nArg > 1 THEN nArg ELSE 1)
        /\ nArg = 0 => Cardinality(InFlight) <= 1
        /\ nArg = 0 /\ ~crashed => (callerPc = "returned" \/ ENABLED Next)
        /\ nArg = 0 /\ callerPc = "returned" => \A t \in Batch : doneCount[t] = 1

\* DoN(0, t1, t2) has returned with both tasks done.
C10_Witness ==
    /\ entry = "DoN" /\ nArg = 0
    /\ callerPc = "returned"
    /\ Len(rqs) = 2
    /\ doneCount[1] = 1 /\ doneCount[2] = 1

\* The tasks a worker has received from p.in.
Received == {t \in Tasks : recvCount[t] > 0}

\* The worker count the caller's code asks of NewPool: len(rqs) in Do,
\* max(n, 1) in DoN, n in a direct NewPool(n).
RequestedWorkers ==
    CASE entry = "Do" -> Len(rqs)
      [] entry = "DoN" -> (IF nArg > 1 THEN nArg ELSE 1)
      [] OTHER -> nArg

\* At the creation of the pool its workers are started and wait in their
\* receive on the open, empty queue, and the barrier counts them.
WorkersStartAtCreation ==
    [][callerPc = "start" /\ callerPc' # "start" =>
            /\ \A w \in Workers : wpc'[w] = (IF w <= poolN' THEN "recv" ELSE "none")
            /\ \A w \in Workers : cur'[w] = 0
            /\ wg' = poolN'
            /\ ~closed']_vars

\* C11 (pool lifecycle), as claimed: every pool the program creates, through
\* NewPool directly or inside Do and DoN, has at least one worker, and its
\* workers are started at creation and wait on the empty queue.
C11_PoolLifecycle ==
    /\ [](callerPc # "start" => poolN >= 1)
    /\ WorkersStartAtCreation

\* C11 amended: every pool is created with the worker count asked for, which
\* is max(n, 1) >= 1 inside DoN, len(rqs) inside Do (0 for the empty batch)
\* and n for a direct NewPool(n) (0 for NewPool(0)); its workers are started
\* at creation and wait on the empty queue.
C11_PoolLifecycleAmended ==
    /\ [](callerPc # "start" =>
            /\ poolN = RequestedWorkers
            /\ entry = "DoN" => poolN >= 1
            /\ entry = "Do" /\ Len(rqs) >= 1 => poolN >= 1)
    /\ WorkersStartAtCreation

\* Do() on the empty batch has created a pool of no workers, and returned.
C11_Witness ==
    /\ entry = "Do"
    /\ Len(rqs) = 0
    /\ poolN = 0
    /\ callerPc = "returned"

\* Pool.Do has a task left to send.
SendPending == callerPc = "send" /\ sendIdx <= Len(rqs)

\* C12 (enqueue after close is fatal): when Pool.Do has a task to send and
\* the queue is closed, by a Stop that ran before the send or while it was
\* blocked, the only step of Pool.Do is the panic "send on closed channel";
\* after the close no task is handed to a worker and Pool.Do does not go on
\* to the next task or return; the task of the fatal send was never received
\* and never done.
C12_SendAfterCloseFatal ==
    /\ [](closed /\ SendPending /\ ~crashed =>
            /\ ENABLED SendOnClosed
            /\ ~ ENABLED (\E w \in Workers : Handoff(w))
            /\ ~ ENABLED StopClose)
    /\ [][closed /\ SendPending =>
            /\ sendIdx' = sendIdx
            /\ callerPc' = "send"
            /\ recvCount' = recvCount]_vars
    /\ [](fatal = "send on closed channel" =>
            /\ crashed /\ closed /\ SendPending
            /\ recvCount[rqs[sendIdx]] = 0
            /\ doneCount[rqs[sendIdx]] = 0)

\* Stop ran in a second goroutine while Pool.Do was between its first and
\* its second send: the second send was fatal.
C12_Witness ==
    /\ fatal = "send on closed channel"
    /\ Len(rqs) = 2
    /\ sendIdx = 2
    /\ recvCount[1] = 1
    /\ stopPc = "wait"

\* C13 (transport failure short-circuits): a task whose fetch failed has had
\* neither decode nor release, its decode target is untouched and its latch
\* holds the transport error; its worker is at r.Done() while it holds the
\* task, and Done() has been called once when it no longer does.
C13_TransportShortCircuit ==
    \A t \in Tasks : outcome[t].fetch = "err" =>
        /\ outcome[t].decode = "none"
        /\ outcome[t].release = "none"
        /\ data[t] = "zero"
        /\ err[t] = "transport"
        /\ \A w \in Workers : cur[w] = t => wpc[w] = "done"
        /\ t \notin Held => doneCount[t] = 1

\* A task is done whose fetch failed.
C13_Witness ==
    /\ outcome[1].fetch = "err"
    /\ doneCount[1] = 1
    /\ err[1] = "transport"
    /\ data[1] = "zero"

\* C14 (descriptor failure does not short-circuit): once the worker has
\* attempted the fetch of a task whose descriptor construction failed, the
\* fetch has failed with a transport error and that error has replaced the
\* construction error in the latch.
C14_DescriptorErrorOverwritten ==
    \A t \in Tasks : url[t] = "malformed" /\ outcome[t].fetch # "none" =>
        /\ outcome[t].fetch = "err"
        /\ err[t] = "transport"

\* C15 (send order): within one Pool.Do the tasks are received in argument
\* order: at any time the received tasks are exactly the first sendIdx - 1
\* arguments, each received once.
C15_SendOrder ==
    \A i \in 1..Len(rqs) : recvCount[rqs[i]] = (IF i < sendIdx THEN 1 ELSE 0)

\* Completion order is free: the second task is done while a worker still
\* holds the first.
C15_Witness ==
    /\ Len(rqs) = 2
    /\ doneCount[2] = 1
    /\ doneCount[1] = 0
    /\ 1 \in Held

\* The workers that were started and have not yet ended.
Running == {w \in Workers : wpc[w] \notin {"none", "exited"}}

\* C16 (barrier accounting): the barrier counter equals the number of
\* workers that have not yet exited and is never negative; a worker has left
\* its loop only if the queue is closed and it holds no task; and a Stop has
\* returned only when the counter is zero, that is when every worker has
\* ended.
C16_BarrierAccounting ==
    /\ callerPc # "start" => wg = Cardinality(Running)
    /\ wg >= 0
    /\ Cardinality({w \in Workers : wpc[w] # "none"}) = poolN
    /\ \A w \in Workers : wpc[w] \in {"wgdone", "exited"} => closed /\ cur[w] = 0
    /\ (callerPc = "returned" \/ stopPc = "returned") => wg = 0 /\ Running = {}

\* One of two workers has ended and decremented the barrier while the other
\* is still in the cycle of its task.
C16_Witness ==
    /\ poolN = 2
    /\ wg = 1
    /\ wpc[1] = "exited"
    /\ cur[2] # 0
    /\ callerPc = "wait"

\* The fields of a task that its worker writes.
TaskState(t) == <<err[t], data[t], outcome[t]>>

\* C17 (completion is the last event of a cycle): Done() is called on a task
\* only by the worker holding it and only when its cycle is over (the fetch
\* failed, or the release has run); once Done() has been called nothing
\* writes the task's latch or decode target; and a worker that is back in
\* its receive, or has left the loop, holds no task.
C17_DoneIsLast ==
    /\ [][\A t \in Tasks : doneCount'[t] # doneCount[t] =>
            /\ outcome[t].fetch = "err" \/ outcome[t].release # "none"
            /\ TaskState(t)' = TaskState(t)
            /\ \E w \in Workers : cur[w] = t /\ wpc[w] = "done" /\ cur'[w] = 0]_vars
    /\ [][\A t \in Tasks : doneCount[t] >= 1 => TaskState(t)' = TaskState(t)]_vars
    /\ [](\A w \in Workers : wpc[w] \in {"none", "recv", "wgdone", "exited"} => cur[w] = 0)

\* The single worker of a pool has called Done() on the first task, after
\* its decode and release, and holds the second.
C17_Witness ==
    /\ poolN = 1
    /\ doneCount[1] = 1
    /\ outcome[1].decode = "err"
    /\ outcome[1].release = "err"
    /\ cur[1] = 2

\* The state worker w keeps to itself.
Local(w) == <<wpc[w], cur[w], req[w]>>

\* C18 (single ownership): every task of a batch of distinct tasks is
\* received at most once, no two workers hold the same task, only the worker
\* holding a task changes its fields, and a step of one worker changes no
\* other worker's state, nor the pool's size or the queue's closing.
C18_SingleOwnership ==
    /\ [](\A t \in Tasks : recvCount[t] <= 1)
    /\ [](\A w1, w2 \in Workers : cur[w1] # 0 /\ cur[w1] = cur[w2] => w1 = w2)
    /\ [][\A t \in Tasks :
            (TaskState(t)' # TaskState(t) \/ doneCount'[t] # doneCount[t])
                => \E w \in Workers :
                      cur[w] = t /\ (Local(w)' # Local(w) \/ fatal' = "nil request")]_vars
    /\ [][callerPc # "start" =>
            \A w1 \in Workers : Local(w1)' # Local(w1) =>
                /\ \A w2 \in Workers \ {w1} : Local(w2)' = Local(w2)
                /\ closed' = closed /\ poolN' = poolN]_vars

\* Two workers are each in the cycle of their own task.
C18_Witness ==
    /\ cur[1] # 0
    /\ cur[2] # 0
    /\ cur[1] # cur[2]
    /\ recvCount[1] = 1 /\ recvCount[2] = 1

\* A Stop is about to run close(p.in): the caller's, after its Pool.Do, or
\* the second goroutine's.
StopAtClose ==
    \/ callerPc = "send" /\ sendIdx > Len(rqs)
    \/ callerPc # "start" /\ stopPc = "ready"

\* C19 (Stop is not idempotent): a Stop that finds the queue closed can only
\* panic ("close of closed channel"): it neither closes nor waits nor
\* returns; so at most one of two Stop calls gets past its close, and after
\* the fatal close exactly one has.
C19_StopNotIdempotent ==
    /\ closed /\ StopAtClose /\ ~crashed =>
        /\ ENABLED CloseOfClosed
        /\ ~ ENABLED StopClose
        /\ ~ ENABLED OtherStopClose
    /\ ~ (callerPc \in {"wait", "returned"} /\ stopPc \in {"wait", "returned"})
    /\ fatal = "close of closed channel" =>
        /\ crashed /\ closed
        /\ (callerPc \in {"wait", "returned"}) # (stopPc \in {"wait", "returned"})

\* The first Stop has returned; the second Stop, called after it, was fatal.
C19_Witness ==
    /\ fatal = "close of closed channel"
    /\ callerPc = "returned"
    /\ stopPc = "ready"

\* C20 (NewPool(0) is not clamped): a pool made by NewPool(0) has no worker
\* and a zero barrier, so a Stop that has closed the queue can return at
\* once; no task is ever received or done; Pool.Do with a task to send never
\* gets past its first send, and has no step at all while the queue is open.
\* Do never has a task to send to a pool without workers.
C20_NewPoolZero ==
    /\ entry = "NewPool" /\ nArg = 0 /\ callerPc # "start" =>
        /\ poolN = 0 /\ wg = 0 /\ Receivers = {}
        /\ stopPc = "wait" /\ ~crashed => ENABLED OtherStopWait
        /\ callerPc = "wait" /\ ~crashed => ENABLED StopWait
        /\ \A t \in Tasks : recvCount[t] = 0 /\ doneCount[t] = 0
        /\ Len(rqs) >= 1 => callerPc = "send" /\ sendIdx = 1
        /\ Len(rqs) >= 1 /\ ~closed =>
              ~ ENABLED (StopClose \/ StopWait \/ SendOnClosed \/ CloseOfClosed
                          \/ \E w \in Workers : Handoff(w))
    /\ entry = "Do" /\ SendPending => poolN >= 1

\* p := NewPool(0); p.Do(t1, t2) with nobody calling Stop: Pool.Do is
\* blocked in its first send and nothing can happen any more.
C20_Witness ==
    /\ entry = "NewPool" /\ nArg = 0
    /\ Len(rqs) = 2
    /\ stopPc = "none"
    /\ callerPc = "send" /\ sendIdx = 1
    /\ ~crashed
    /\ ~ ENABLED PoolNext

====
